---- MODULE Spec2Model ----
(***************************************************************************)
(* Model of the checkpoint / resume subsystem of SmartAudio-Agent:          *)
(*   - saa/models/job_state.py   JobState and ProcessingStage              *)
(*   - saa/tools/resume_tools.py synthesize_remaining_chunks               *)
(*   - saa/tools/tts_tools.py    synthesize_audio and its two providers    *)
(* SpecJob drives one in-memory JobState through its three mutators with  *)
(* arbitrary arguments.  Spec drives the resume executor and the           *)
(* synthesize_audio tool against the files on disk (state.json,            *)
(* chunks.json, the chunk wav files).                                      *)
(* SpecCancel drives the executor alone, next to an operator who may       *)
(* cancel the job.  The text functions are pure; each has a specification  *)
(* that draws the arguments from a bounded set and applies the function    *)
(* once: SpecVoice (assign_voice_profile), SpecSplit                       *)
(* (smart_split_by_speaker), SpecSegment (segment_text) and SpecDetect     *)
(* (detect_speaker).                                                       *)
(* Wall-clock fields (started_at, updated_at) are not modelled; completed_at*)
(* is kept as "None" / "set".                                              *)
(***************************************************************************)
EXTENDS Integers, Sequences, FiniteSets, TLC

VARIABLES
    job,         \* the in-memory JobState object
    lastCall,    \* history: the last JobState mutator call and the lists before it
    stateFile,   \* state.json: kind "absent", "corrupt" or "json" with the to_dict data
    chunksFile,  \* chunks.json: kind "absent" or "json" with the list under "chunks"
    settings,    \* get_settings(): tts_provider and has_replicate_token
    engine,      \* what the local speech engine returns for each chunk
    audio,       \* ids of the chunk_{id:04d}.wav files present in temp_dir
    providers,   \* the module-level provider handles that are initialised
    exec,        \* the activation record of synthesize_remaining_chunks
    pure         \* the pure function being applied: its arguments and its result

vars ==
    <<job, lastCall, stateFile, chunksFile, settings, engine, audio, providers, exec,
      pure>>

(***************************************************************************)
(* Bounds                                                                  *)
(***************************************************************************)
\* segment indices handed to the JobState mutators range over 0..MaxSeg and
\* total_segments over 0..MaxSeg, so index MaxSeg is always out of range
MaxSeg == 2
\* chunks.json holds at most MaxChunks chunks, ids 0..MaxChunks-1
MaxChunks == 2

SegIds == 0..MaxSeg
ChunkIds == 0..(MaxChunks - 1)

(***************************************************************************)
(* Helpers on Python lists                                                 *)
(***************************************************************************)
Range(s) == {s[i] : i \in 1..Len(s)}

\* x in list
In(x, s) == x \in Range(s)

\* list.remove(x): delete the first occurrence of x (x is known to occur)
ListRemove(s, x) ==
    LET i == CHOOSE k \in 1..Len(s) : s[k] = x /\ \A m \in 1..(k - 1) : s[m] # x
    IN  SubSeq(s, 1, i - 1) \o SubSeq(s, i + 1, Len(s))

\* [c for c in s if c["id"] not in excluded]
RECURSIVE FilterNotIn(_, _)
FilterNotIn(s, excluded) ==
    IF s = <<>> THEN <<>>
    ELSE (IF Head(s).id \notin excluded THEN <<Head(s)>> ELSE <<>>)
         \o FilterNotIn(Tail(s), excluded)

\* sorted(list(S)) for a set of integers
RECURSIVE Sorted(_)
Sorted(S) ==
    IF S = {} THEN <<>>
    ELSE LET m == CHOOSE x \in S : \A y \in S : x <= y
         IN  <<m>> \o Sorted(S \ {m})

(***************************************************************************)
(* ProcessingStage (job_state.py 9-21): member names in declaration order  *)
(* and the string value of each member                                     *)
(***************************************************************************)
ProcessingStage ==
    << "PENDING", "DOCUMENT_LOAD", "TEXT_CLEANING", "SEGMENTATION",
       "VOICE_PLANNING", "SYNTHESIS", "AUDIO_MERGE", "FINALIZATION",
       "COMPLETED", "FAILED", "CANCELLED" >>

StageValues ==
    << "pending", "document_load", "text_cleaning", "segmentation",
       "voice_planning", "synthesis", "audio_merge", "finalization",
       "completed", "failed", "cancelled" >>

Stages == Range(ProcessingStage)

\* position of a member in the declaration order
StageIndex(s) == CHOOSE i \in 1..Len(ProcessingStage) : ProcessingStage[i] = s

\* ProcessingStage.X.value
StageValue(s) == StageValues[StageIndex(s)]

\* ProcessingStage("x"): the member whose value is v
StageOfValue(v) == ProcessingStage[CHOOSE i \in 1..Len(StageValues) : StageValues[i] = v]

(***************************************************************************)
(* JobState (job_state.py 24-161)                                          *)
(***************************************************************************)
\* the attributes the class JobState defines: dataclass fields, properties,
\* methods and the classmethod from_dict
JobStateAttrs ==
    { "job_id", "input_file", "output_dir", "stage", "total_segments",
      "completed_segments", "failed_segments", "audio_chunks",
      "config_snapshot", "started_at", "updated_at", "completed_at", "error",
      "metadata", "is_completed", "is_failed", "is_processing",
      "progress_percentage", "pending_segments", "duration_seconds",
      "mark_segment_completed", "mark_segment_failed", "advance_stage",
      "to_dict", "from_dict" }

\* JobState(job_id, input_file, output_dir, total_segments=n)
NewJobState(n) ==
    [ stage |-> "PENDING",
      total_segments |-> n,
      completed_segments |-> <<>>,
      failed_segments |-> <<>>,
      completed_at |-> "None" ]

\* pending_segments that subtracts only the completed ids
pending_segments_ignores_failed(j) ==
    Sorted((0..(j.total_segments - 1)) \ Range(j.completed_segments))

\* JobState.pending_segments
pending_segments(j) ==
    Sorted((0..(j.total_segments - 1))
           \ (Range(j.completed_segments) \cup Range(j.failed_segments)))

\* mark_segment_completed that leaves the index in the failed list
mark_segment_completed_keeps_failed(j, segment_index) ==
    LET c == IF ~In(segment_index, j.completed_segments)
             THEN Append(j.completed_segments, segment_index)
             ELSE j.completed_segments
    IN  [j EXCEPT !.completed_segments = c]

\* mark_segment_completed whose second test removes from the completed list
\* (the body of mark_segment_failed pasted without swapping the lists)
mark_segment_completed_removes_completed(j, segment_index) ==
    LET c == IF ~In(segment_index, j.completed_segments)
             THEN Append(j.completed_segments, segment_index)
             ELSE ListRemove(j.completed_segments, segment_index)
    IN  [j EXCEPT !.completed_segments = c]

\* JobState.mark_segment_completed
mark_segment_completed(j, segment_index) ==
    LET c == IF ~In(segment_index, j.completed_segments)
             THEN Append(j.completed_segments, segment_index)
             ELSE j.completed_segments
        f == IF In(segment_index, j.failed_segments)
             THEN ListRemove(j.failed_segments, segment_index)
             ELSE j.failed_segments
    IN  [j EXCEPT !.completed_segments = c, !.failed_segments = f]

\* JobState.mark_segment_failed
mark_segment_failed(j, segment_index) ==
    LET f == IF ~In(segment_index, j.failed_segments)
             THEN Append(j.failed_segments, segment_index)
             ELSE j.failed_segments
        c == IF In(segment_index, j.completed_segments)
             THEN ListRemove(j.completed_segments, segment_index)
             ELSE j.completed_segments
    IN  [j EXCEPT !.completed_segments = c, !.failed_segments = f]

\* JobState.advance_stage
advance_stage(j, new_stage) ==
    [j EXCEPT !.stage = new_stage,
              !.completed_at = IF new_stage = "COMPLETED" THEN "set" ELSE @]

\* JobState.to_dict: the dictionary written as JSON
to_dict(j) ==
    [ stage |-> StageValue(j.stage),
      total_segments |-> j.total_segments,
      completed_segments |-> j.completed_segments,
      failed_segments |-> j.failed_segments,
      completed_at |-> j.completed_at ]

\* JobState.from_dict
from_dict(d) ==
    [ stage |-> StageOfValue(d.stage),
      total_segments |-> d.total_segments,
      completed_segments |-> d.completed_segments,
      failed_segments |-> d.failed_segments,
      completed_at |-> d.completed_at ]

\* JobState.load(path), named in the design (section 4.5) and called by the
\* executor, but not defined by the class: read the JSON and build the object
JobState_load(file) == from_dict(file.data)

(***************************************************************************)
(* The JobState object driven through its mutators (SpecJob)               *)
(***************************************************************************)
\* no pure function is being applied
NoPure == [fn |-> "none"]

\* no dictionary returned yet
NoResult ==
    [ status |-> "none", error |-> "", chunks_synthesized |-> 0,
      chunks_skipped |-> 0, total_chunks |-> -1, failed_chunks |-> <<>> ]

NoCall ==
    [ op |-> "none", segment_index |-> -1, new_stage |-> "",
      completed_before |-> <<>>, failed_before |-> <<>> ]

Call(op, i, s) ==
    [ op |-> op, segment_index |-> i, new_stage |-> s,
      completed_before |-> job.completed_segments,
      failed_before |-> job.failed_segments ]

IdleExec ==
    [ pc |-> "idle", completed_ids |-> {}, all_chunks |-> <<>>,
      pending_chunks |-> <<>>, idx |-> 1, synthesized_count |-> 0,
      failed_chunks |-> <<>>, attempted |-> <<>>, calls |-> <<>>,
      after_cancel |-> <<>>, result |-> NoResult ]

InitJob ==
    /\ \E n \in 0..MaxSeg : job = NewJobState(n)
    /\ lastCall = NoCall
    /\ stateFile = [kind |-> "absent"]
    /\ chunksFile = [kind |-> "absent"]
    /\ settings = [tts_provider |-> "auto", has_replicate_token |-> FALSE]
    /\ engine = [c \in ChunkIds |-> "success"]
    /\ audio = {}
    /\ providers = {}
    /\ exec = IdleExec
    /\ pure = NoPure

JobFrame ==
    UNCHANGED <<stateFile, chunksFile, settings, engine, audio, providers, exec, pure>>

MarkSegmentCompleted(i) ==
    /\ job' = mark_segment_completed(job, i)
    /\ lastCall' = Call("mark_segment_completed", i, "")
    /\ JobFrame

MarkSegmentFailed(i) ==
    /\ job' = mark_segment_failed(job, i)
    /\ lastCall' = Call("mark_segment_failed", i, "")
    /\ JobFrame

AdvanceStage(s) ==
    /\ job' = advance_stage(job, s)
    /\ lastCall' = Call("advance_stage", -1, s)
    /\ JobFrame

NextJob ==
    \/ \E i \in SegIds : MarkSegmentCompleted(i)
    \/ \E i \in SegIds : MarkSegmentFailed(i)
    \/ \E s \in Stages : AdvanceStage(s)

SpecJob == InitJob /\ [][NextJob]_vars

(***************************************************************************)
(* Settings (config/settings.py 214-229)                                   *)
(***************************************************************************)
\* Settings.effective_tts_provider
effective_tts_provider(st) ==
    IF st.tts_provider = "auto"
    THEN (IF st.has_replicate_token THEN "replicate" ELSE "local")
    ELSE IF st.tts_provider = "replicate" /\ ~st.has_replicate_token
    THEN "local"
    ELSE st.tts_provider

(***************************************************************************)
(* tts_tools.py.  A result carries the status and synthesis_method keys of *)
(* the returned dictionary, wrote = the output wav was written, and init = *)
(* the provider handles the call initialised.                              *)
(***************************************************************************)
\* what ReplicateTTSProvider.synthesize does: return success, raise one of
\* the two Replicate exceptions, or return / raise anything else
ReplicateOutcomes == {"success", "ReplicateAuthError", "ReplicateAPIError", "error"}

\* what LocalTTSProvider.synthesize does for a chunk: success, or an error
\* (text too long, reference audio missing, GPU out of memory, other)
LocalOutcomes == {"success", "error"}

\* synthesize_with_replicate
synthesize_with_replicate(st, r) ==
    IF ~st.has_replicate_token
    THEN [status |-> "fallback_required", synthesis_method |-> "replicate",
          wrote |-> FALSE, init |-> {}]
    ELSE IF r = "success"
    THEN [status |-> "success", synthesis_method |-> "replicate",
          wrote |-> TRUE, init |-> {"replicate"}]
    ELSE IF r \in {"ReplicateAuthError", "ReplicateAPIError"}
    THEN [status |-> "fallback_required", synthesis_method |-> "replicate",
          wrote |-> FALSE, init |-> {"replicate"}]
    ELSE [status |-> "error", synthesis_method |-> "replicate",
          wrote |-> FALSE, init |-> {"replicate"}]

\* synthesize_with_local
synthesize_with_local(l) ==
    [status |-> l, synthesis_method |-> "local_xtts",
     wrote |-> (l = "success"), init |-> {"local"}]

\* the function without the branch of lines 251-253: a Replicate result that
\* is not a success is returned whatever its status
synthesize_audio_no_fallback(provider, st, r, l) ==
    LET p1  == IF provider = "auto" THEN effective_tts_provider(st) ELSE provider
    IN  IF p1 = "replicate" THEN synthesize_with_replicate(st, r)
        ELSE IF p1 = "local" THEN synthesize_with_local(l)
        ELSE [status |-> "error", synthesis_method |-> "unknown",
              wrote |-> FALSE, init |-> {}]

\* synthesize_audio(provider=...), r and l being what the two engines do
synthesize_audio(provider, st, r, l) ==
    LET p1  == IF provider = "auto" THEN effective_tts_provider(st) ELSE provider
        rep == synthesize_with_replicate(st, r)
        p2  == IF p1 = "replicate" /\ rep.status = "fallback_required"
               THEN "local" ELSE p1
        loc == synthesize_with_local(l)
    IN  IF p1 = "replicate" /\ rep.status = "success" THEN rep
        ELSE IF p1 = "replicate" /\ rep.status # "fallback_required" THEN rep
        ELSE IF p2 = "local"
        THEN [loc EXCEPT !.init = @ \cup (IF p1 = "replicate" THEN rep.init ELSE {})]
        ELSE [status |-> "error", synthesis_method |-> "unknown",
              wrote |-> FALSE, init |-> {}]

\* the parameters synthesize_audio declares (tts_tools.py 173-183)
synthesize_audio_params ==
    { "text", "output_path", "reference_audio", "provider", "voice",
      "language", "temperature", "speed", "use_temp_dir" }

\* the keyword arguments the executor passes (resume_tools.py 98-107)
executor_call_kwargs ==
    { "text", "output_path", "reference_audio", "voice", "speed",
      "use_temp_dir", "chunk_id", "job_state_path" }

\* a Python call binds when every keyword names a declared parameter and the
\* parameters without default (text, output_path, reference_audio) are given
CallBinds(kwargs, params) ==
    /\ kwargs \subseteq params
    /\ {"text", "output_path", "reference_audio"} \subseteq kwargs

(***************************************************************************)
(* synthesize_remaining_chunks (resume_tools.py 13-135)                    *)
(***************************************************************************)
\* the dictionary returned by the except clause and by the missing-chunks
\* branch; total_chunks -1 and failed_chunks <<>> stand for absent keys
ErrorResult(e) ==
    [ status |-> "error", error |-> e, chunks_synthesized |-> 0,
      chunks_skipped |-> 0, total_chunks |-> -1, failed_chunks |-> <<>> ]

SuccessResult(synthesized, skipped, total, failed) ==
    [ status |-> "success", error |-> "", chunks_synthesized |-> synthesized,
      chunks_skipped |-> skipped, total_chunks |-> total, failed_chunks |-> failed ]

\* the stage recorded in state.json says the job was cancelled
StoredCancelled ==
    stateFile.kind = "json" /\ stateFile.data.stage = StageValue("CANCELLED")

\* a loader that treats an unreadable state file as "no state"
LoadCompleted_swallows(file) ==
    IF file.kind = "json" /\ "load" \in JobStateAttrs
    THEN [raised |-> "",
          completed_ids |-> Range(JobState_load(file).completed_segments)]
    ELSE [raised |-> "", completed_ids |-> {}]

\* lines 39-50: the completed ids read from state.json, or the exception
\* raised while reading them
LoadCompleted(file) ==
    IF file.kind = "absent" THEN [raised |-> "", completed_ids |-> {}]
    ELSE IF "load" \notin JobStateAttrs
    THEN [raised |-> "AttributeError", completed_ids |-> {}]
    ELSE IF file.kind = "corrupt"
    THEN [raised |-> "JSONDecodeError", completed_ids |-> {}]
    ELSE [raised |-> "",
          completed_ids |-> Range(JobState_load(file).completed_segments)]

\* lines 92-95: the reference audio chosen for a chunk
ref_audio(chunk) ==
    IF chunk.voice = "female" THEN "reference_audio/female.wav"
    ELSE "reference_audio/male.wav"

ExecFrame == UNCHANGED <<job, lastCall, stateFile, chunksFile, settings, engine, pure>>

\* lines 35-82: load the state and the chunks, filter the pending chunks
ExecStart ==
    /\ exec.pc = "idle"
    /\ LET ld      == LoadCompleted(stateFile)
           all     == IF chunksFile.kind = "json" THEN chunksFile.chunks ELSE <<>>
           pending == FilterNotIn(all, ld.completed_ids)
       IN  exec' =
             IF ld.raised # ""
             THEN [exec EXCEPT !.pc = "done", !.result = ErrorResult(ld.raised)]
             ELSE IF chunksFile.kind = "absent"
             THEN [exec EXCEPT !.pc = "done", !.completed_ids = ld.completed_ids,
                               !.result = ErrorResult("Chunks file not found")]
             ELSE IF pending = <<>>
             THEN [exec EXCEPT !.pc = "done", !.completed_ids = ld.completed_ids,
                               !.all_chunks = all,
                               !.result = SuccessResult(0, Cardinality(ld.completed_ids),
                                                        Len(all), <<>>)]
             ELSE [exec EXCEPT !.pc = "loop", !.completed_ids = ld.completed_ids,
                               !.all_chunks = all, !.pending_chunks = pending,
                               !.idx = 1]
    /\ UNCHANGED <<audio, providers>>
    /\ ExecFrame

\* lines 88-126: one iteration of the loop over the pending chunks; after
\* the last one, cleanup_tts_resources and the summary
ExecIter ==
    /\ exec.pc = "loop"
    /\ LET chunk == exec.pending_chunks[exec.idx]
           last  == exec.idx = Len(exec.pending_chunks)
       IN  IF ~CallBinds(executor_call_kwargs, synthesize_audio_params)
           THEN /\ exec' = [exec EXCEPT !.pc = "done",
                                        !.attempted = Append(@, chunk.id),
                                        !.after_cancel =
                                           IF StoredCancelled
                                           THEN Append(@, chunk.id) ELSE @,
                                        !.result = ErrorResult("TypeError")]
                /\ UNCHANGED <<audio, providers>>
           ELSE \E r \in ReplicateOutcomes :
                  LET res   == synthesize_audio("auto", settings, r, engine[chunk.id])
                      count == exec.synthesized_count
                                 + (IF res.status = "success" THEN 1 ELSE 0)
                      failed == IF res.status = "success" THEN exec.failed_chunks
                                ELSE Append(exec.failed_chunks, chunk.id)
                  IN  /\ audio' = IF res.wrote THEN audio \cup {chunk.id} ELSE audio
                      /\ providers' = IF last THEN {} ELSE providers \cup res.init
                      /\ exec' = [exec EXCEPT
                             !.attempted = Append(@, chunk.id),
                             !.after_cancel =
                                IF StoredCancelled THEN Append(@, chunk.id) ELSE @,
                             !.calls = Append(@, chunk.id),
                             !.synthesized_count = count,
                             !.failed_chunks = failed,
                             !.idx = @ + 1,
                             !.pc = IF last THEN "done" ELSE "loop",
                             !.result = IF last
                                        THEN SuccessResult(count,
                                               Cardinality(exec.completed_ids),
                                               Len(exec.all_chunks), failed)
                                        ELSE @]
    /\ ExecFrame

\* an agent calls the synthesize_audio tool for one chunk of chunks.json
ToolSynthesizeAudio(i, provider) ==
    /\ exec.pc = "idle"
    /\ chunksFile.kind = "json"
    /\ i \in 1..Len(chunksFile.chunks)
    /\ \E r \in ReplicateOutcomes :
         LET chunk == chunksFile.chunks[i]
             res   == synthesize_audio(provider, settings, r, engine[chunk.id])
         IN  /\ audio' = IF res.wrote THEN audio \cup {chunk.id} ELSE audio
             /\ providers' = providers \cup res.init
    /\ UNCHANGED exec
    /\ ExecFrame

\* cleanup_tts_resources (tts_tools.py 283-311)
CleanupTtsResources ==
    /\ exec.pc = "idle"
    /\ providers' = {}
    /\ UNCHANGED <<audio, exec>>
    /\ ExecFrame

Voices == {"female", "neutral"}
Providers == {"auto", "replicate", "local", "other"}

\* the lists chunks.json can hold: ids 0..n-1 in order, any voice
ChunkLists ==
    UNION { { [i \in 1..n |-> [id |-> i - 1, voice |-> v[i]]] : v \in [1..n -> Voices] }
            : n \in 0..MaxChunks }

\* the records state.json can hold: disjoint completed and failed ids
StateRecords ==
    { to_dict([ stage |-> "SYNTHESIS", total_segments |-> MaxChunks,
                completed_segments |-> Sorted(C), failed_segments |-> Sorted(F),
                completed_at |-> "None" ])
        : C \in SUBSET ChunkIds, F \in SUBSET ChunkIds }

Init ==
    /\ job = NewJobState(0)
    /\ lastCall = NoCall
    /\ stateFile \in {[kind |-> "absent"], [kind |-> "corrupt"]}
                      \cup { [kind |-> "json", data |-> d] :
                               d \in { x \in StateRecords :
                                        Range(x.completed_segments)
                                          \cap Range(x.failed_segments) = {} } }
    /\ chunksFile \in {[kind |-> "absent"]}
                       \cup { [kind |-> "json", chunks |-> c] : c \in ChunkLists }
    /\ settings \in [tts_provider : {"auto", "replicate", "local"},
                      has_replicate_token : BOOLEAN]
    /\ engine \in [ChunkIds -> LocalOutcomes]
    /\ audio = {}
    /\ providers = {}
    /\ exec = IdleExec
    /\ pure = NoPure

Next ==
    \/ ExecStart
    \/ ExecIter
    \/ \E i \in 1..MaxChunks, p \in Providers : ToolSynthesizeAudio(i, p)
    \/ CleanupTtsResources

Spec == Init /\ [][Next]_vars

(***************************************************************************)
(* The executor with an operator who cancels the job (SpecCancel)          *)
(***************************************************************************)
\* "a job may be cancelled between segments by setting stage = CANCELLED"
\* (design, scheduling model): the stage is written to state.json while the
\* executor is before its first or between two iterations
Cancel ==
    /\ exec.pc = "loop"
    /\ ~StoredCancelled
    /\ stateFile' =
         [ kind |-> "json",
           data |-> to_dict(advance_stage(
                      IF stateFile.kind = "json" THEN JobState_load(stateFile)
                      ELSE NewJobState(Len(exec.all_chunks)),
                      "CANCELLED")) ]
    /\ UNCHANGED <<job, lastCall, chunksFile, settings, engine, audio,
                   providers, exec, pure>>

NextCancel ==
    \/ ExecStart
    \/ ExecIter
    \/ Cancel

SpecCancel == Init /\ [][NextCancel]_vars

(***************************************************************************)
(* Claims about JobState, checked under SpecJob                            *)
(***************************************************************************)
Mutators == {"mark_segment_completed", "mark_segment_failed", "advance_stage"}

\* C5: every mutating JobState call persists the full state before it
\* returns, so after any call state.json holds exactly to_dict of the object
C5_PersistedAfterEveryCall ==
    lastCall.op \in Mutators =>
        /\ stateFile.kind = "json"
        /\ stateFile.data = to_dict(job)

Pipeline == 1..9
Terminal == {"COMPLETED", "FAILED", "CANCELLED"}

\* C6: stage never moves to an earlier stage of the pipeline; the only
\* non-forward transitions are to FAILED or CANCELLED from a non-terminal stage
C6_StageMonotonic ==
    [][ \/ job'.stage = job.stage
        \/ /\ StageIndex(job.stage) \in Pipeline
           /\ StageIndex(job'.stage) \in Pipeline
           /\ StageIndex(job'.stage) > StageIndex(job.stage)
        \/ /\ job'.stage \in {"FAILED", "CANCELLED"}
           /\ job.stage \notin Terminal ]_vars

\* C7: from the empty state, after any sequence of mark_segment_completed /
\* mark_segment_failed calls the completed and failed lists share no id
C7_CompletedFailedDisjoint ==
    Range(job.completed_segments) \cap Range(job.failed_segments) = {}

\* an id that was in the failed list has just been marked completed
C7_Witness ==
    /\ lastCall.op = "mark_segment_completed"
    /\ lastCall.segment_index \in Range(lastCall.failed_before)
    /\ lastCall.segment_index \in Range(job.completed_segments)
    /\ Len(job.failed_segments) > 0

\* C8: every id in the completed or failed list lies in 0..total_segments-1
C8_IdsInRange ==
    (Range(job.completed_segments) \cup Range(job.failed_segments))
        \subseteq 0..(job.total_segments - 1)

Count(seq, x) == Cardinality({k \in 1..Len(seq) : seq[k] = x})

\* ids of the chunks in chunks.json
FileChunkIds ==
    IF chunksFile.kind = "json"
    THEN {chunksFile.chunks[k].id : k \in 1..Len(chunksFile.chunks)}
    ELSE {}

\* ids recorded as completed / failed in state.json
StoredCompleted ==
    IF stateFile.kind = "json" THEN Range(stateFile.data.completed_segments) ELSE {}

StoredFailed ==
    IF stateFile.kind = "json" THEN Range(stateFile.data.failed_segments) ELSE {}

\* synthesize_audio called by the executor for this id is bound to succeed /
\* bound to fail: the local engine is the provider in force
MustSucceed(id) == effective_tts_provider(settings) = "local" /\ engine[id] = "success"
MustFail(id) == effective_tts_provider(settings) = "local" /\ engine[id] = "error"

\* C1: a finished run against a stored state with completed set C and chunk
\* ids I has invoked synthesis exactly once for each id in I \ C and never
\* for an id in C
C1_SynthesizesExactlyPending ==
    (exec.pc = "done" /\ stateFile.kind = "json" /\ chunksFile.kind = "json") =>
        \A id \in FileChunkIds :
            Count(exec.calls, id) = IF id \in StoredCompleted THEN 0 ELSE 1

\* C2: when a run has finished without a job-level failure, every chunk
\* whose synthesis succeeds is among the completed segments of state.json
C2_SuccessIsPersisted ==
    (exec.pc = "done" /\ stateFile.kind # "corrupt" /\ chunksFile.kind = "json") =>
        \A id \in FileChunkIds :
            MustSucceed(id) => id \in StoredCompleted

\* C3: when a run has finished without a job-level failure, every pending
\* chunk whose synthesis fails is among the failed segments of state.json
C3_FailureIsPersisted ==
    (exec.pc = "done" /\ stateFile.kind # "corrupt" /\ chunksFile.kind = "json") =>
        \A id \in FileChunkIds \ StoredCompleted :
            MustFail(id) => id \in StoredFailed

\* C4: a run that reached its loop and has finished without a job-level
\* failure has attempted every pending chunk, whatever happened to the
\* chunks before it
C4_FailureNotFatal ==
    (exec.pc = "done" /\ stateFile.kind # "corrupt" /\ chunksFile.kind = "json"
       /\ Len(exec.attempted) > 0) =>
        \A id \in FileChunkIds \ StoredCompleted : id \in Range(exec.attempted)

\* C10: a finished run against a stored state has attempted every chunk that
\* is recorded as failed and not as completed
C10_FailedAreRetried ==
    (exec.pc = "done" /\ stateFile.kind = "json" /\ chunksFile.kind = "json") =>
        \A id \in (FileChunkIds \cap StoredFailed) \ StoredCompleted :
            id \in Range(exec.attempted)

(***************************************************************************)
(* Cancellation and unreadable state (resume_tools.py 35-135)              *)
(***************************************************************************)
\* C11: once the stored stage is CANCELLED, the executor begins no further
\* iteration: no chunk is handed to synthesize_audio after the cancellation
C11_NoSegmentAfterCancel == exec.after_cancel = <<>>

\* C12: with a state file that exists but cannot be read, the executor ends
\* with an error result and has handed no chunk to synthesize_audio
C12_CorruptStateHalts ==
    (stateFile.kind = "corrupt" /\ exec.pc = "done")
        => /\ exec.result.status = "error"
           /\ exec.attempted = <<>>
           /\ exec.calls = <<>>

\* a corrupt state.json next to a chunks.json with chunks, after the run
C12_Witness ==
    /\ stateFile.kind = "corrupt"
    /\ chunksFile.kind = "json"
    /\ chunksFile.chunks # <<>>
    /\ exec.pc = "done"

(***************************************************************************)
(* Pure functions: the rest of the program stays as constructed            *)
(***************************************************************************)
RestIdle ==
    /\ job = NewJobState(0)
    /\ lastCall = NoCall
    /\ stateFile = [kind |-> "absent"]
    /\ chunksFile = [kind |-> "absent"]
    /\ settings = [tts_provider |-> "auto", has_replicate_token |-> FALSE]
    /\ engine = [c \in ChunkIds |-> "success"]
    /\ audio = {}
    /\ providers = {}
    /\ exec = IdleExec

PureFrame ==
    UNCHANGED <<job, lastCall, stateFile, chunksFile, settings, engine, audio,
                providers, exec>>

(***************************************************************************)
(* assign_voice_profile (voice_tools.py 120-202).  Strings are sequences   *)
(* of one-character strings; the directory holds a set of file names.      *)
(***************************************************************************)
\* str.lower() on the letters that occur
LowerChar(c) ==
    CASE c = "F" -> "f"
      [] c = "J" -> "j"
      [] c = "M" -> "m"
      [] c = "N" -> "n"
      [] OTHER -> c

lower(str) == [i \in 1..Len(str) |-> LowerChar(str[i])]

\* str.replace(' ', '_')
replace_space(str) == [i \in 1..Len(str) |-> IF str[i] = " " THEN "_" ELSE str[i]]

wav(stem) == stem \o <<".", "w", "a", "v">>

male_wav == wav(<<"m", "a", "l", "e">>)
female_wav == wav(<<"f", "e", "m", "a", "l", "e">>)
narrator_wav == wav(<<"n", "a", "r", "r", "a", "t", "o", "r">>)

\* line 148: the file named after the character
character_audio(character_name) == wav(replace_space(lower(character_name)))

MaleWords == { <<"m", "a", "l", "e">>, <<"m", "a", "s", "c", "u", "l", "i", "n", "e">>, <<"m">> }
FemaleWords ==
    { <<"f", "e", "m", "a", "l", "e">>, <<"f", "e", "m", "i", "n", "i", "n", "e">>, <<"f">> }

\* lines 150-167: the chosen path and the value bound to gender_normalized
\* (the name is not assigned on the first branch)
resolve_voice(character_name, gender, files) ==
    IF character_audio(character_name) \in files
    THEN [voice_ref |-> character_audio(character_name), gender_normalized |-> "unbound"]
    ELSE IF lower(gender) \in MaleWords
    THEN [voice_ref |-> male_wav, gender_normalized |-> "male"]
    ELSE IF lower(gender) \in FemaleWords
    THEN [voice_ref |-> female_wav, gender_normalized |-> "female"]
    ELSE IF narrator_wav \in files
    THEN [voice_ref |-> narrator_wav, gender_normalized |-> "neutral"]
    ELSE [voice_ref |-> male_wav, gender_normalized |-> "neutral"]

VoiceError(e) ==
    [status |-> "error", error |-> e, reference_audio |-> <<>>, gender |-> ""]

\* the function without the existence check of lines 169-175
assign_voice_profile_unchecked(character_name, gender, files) ==
    LET r == resolve_voice(character_name, gender, files)
    IN  IF r.gender_normalized = "unbound"
        THEN VoiceError("UnboundLocalError")
        ELSE [status |-> "success", error |-> "None",
              reference_audio |-> r.voice_ref, gender |-> r.gender_normalized]

\* lines 144-202
assign_voice_profile(character_name, gender, files) ==
    LET r == resolve_voice(character_name, gender, files)
    IN  IF r.voice_ref \notin files
        THEN VoiceError("Reference audio not found")
        ELSE IF r.gender_normalized = "unbound"
        THEN VoiceError("UnboundLocalError")
        ELSE [status |-> "success", error |-> "None",
              reference_audio |-> r.voice_ref, gender |-> r.gender_normalized]

CharacterNames ==
    { <<"J", "o", "h", "n">>, <<"N", "a", "r", "r", "a", "t", "o", "r">>,
      <<"M", "a", "l", "e">>, <<"M", "a", " ", "J", "o">> }

Genders ==
    { <<"m", "a", "l", "e">>, <<"M">>, <<"F", "e", "m", "a", "l", "e">>, <<"f">>,
      <<"n", "e", "u", "t", "r", "a", "l">>, <<"u", "n", "k", "n", "o", "w", "n">> }

AudioFiles ==
    { male_wav, female_wav, narrator_wav, wav(<<"j", "o", "h", "n">>),
      wav(<<"m", "a", "_", "j", "o">>) }

NoVoiceResult == [status |-> "none", error |-> "", reference_audio |-> <<>>, gender |-> ""]

InitVoice ==
    /\ RestIdle
    /\ \E c \in CharacterNames, g \in Genders, fs \in SUBSET AudioFiles :
         pure = [fn |-> "assign_voice_profile", character_name |-> c, gender |-> g,
                 files |-> fs, result |-> NoVoiceResult]

AssignVoiceProfile ==
    /\ pure.fn = "assign_voice_profile"
    /\ pure.result.status = "none"
    /\ pure' = [pure EXCEPT !.result =
                   assign_voice_profile(pure.character_name, pure.gender, pure.files)]
    /\ PureFrame

NextVoice == AssignVoiceProfile

SpecVoice == InitVoice /\ [][NextVoice]_vars

\* C20: a successful result names a reference audio file that is in the
\* directory, and a call whose resolved file is not there reports an error
C20_NoMissingReference ==
    (pure.fn = "assign_voice_profile" /\ pure.result.status # "none")
        => /\ pure.result.status = "success" => pure.result.reference_audio \in pure.files
           /\ resolve_voice(pure.character_name, pure.gender, pure.files).voice_ref
                  \notin pure.files
                => pure.result.status = "error" /\ pure.result.error # ""

\* a neutral gender with neither narrator.wav nor male.wav: the default that
\* is resolved is absent and the call has returned
C20_Witness ==
    /\ pure.fn = "assign_voice_profile"
    /\ pure.result.status = "error"
    /\ lower(pure.gender) \notin MaleWords \cup FemaleWords
    /\ narrator_wav \notin pure.files
    /\ male_wav \notin pure.files
    /\ female_wav \in pure.files

(***************************************************************************)
(* Texts.  A text is a sequence of symbols; a symbol stands for one        *)
(* character or for a run of characters none of the functions looks into:  *)
(*   n in 1..WordsBase-1   a run of n lowercase letters (one word)         *)
(*   WordsBase + k         k one-letter words separated by single spaces   *)
(*   SP NL DOT BANG QM COMMA PIPE   ' ' '\n' '.' '!' '?' ',' '|'           *)
(*   RAY JULIA             the words "Ray" and "Julia"                     *)
(*   RAY_L JULIA_L         the same words in lowercase                     *)
(*   SAID ... MUTTERED     the attribution verbs                           *)
(*   SHE ... HIMSELF       the pronouns; DETECTIVE, a keyword              *)
(***************************************************************************)
WordsBase == 10000
SP == 0
NL == -1
DOT == -2
BANG == -3
QM == -4
COMMA == -5
PIPE == -6
RAY == -7
JULIA == -8
RAY_L == -9
JULIA_L == -10
SAID == -11
REPLIED == -12
ASKED == -13
EXCLAIMED == -14
SHOUTED == -15
WHISPERED == -16
MUTTERED == -17
SHE == -18
HER == -19
HERSELF == -20
HE == -21
HIM == -22
HIMSELF == -23
DETECTIVE == -24
\* "Copyright © 2020", "A C K N O W L E D G M E N T S", "INT_1.indd",
\* "1/1/20", "AM", "FOR MY " and "READERS"
COPYRIGHT == -25
ACKNOWLEDGMENTS == -26
INDD == -27
DATE == -28
AM == -29
FOR_MY == -30
READERS == -31

Words(k) == WordsBase + k

\* len() of one symbol
SymLen(c) ==
    IF c >= WordsBase THEN 2 * (c - WordsBase) - 1
    ELSE IF c >= 1 THEN c
    ELSE IF c \in {RAY, RAY_L, SHE, HER, HIM} THEN 3
    ELSE IF c \in {JULIA, JULIA_L, ASKED} THEN 5
    ELSE IF c = SAID THEN 4
    ELSE IF c = HE THEN 2
    ELSE IF c \in {REPLIED, SHOUTED, HERSELF, HIMSELF} THEN 7
    ELSE IF c = MUTTERED THEN 8
    ELSE IF c \in {EXCLAIMED, WHISPERED, DETECTIVE} THEN 9
    ELSE IF c = COPYRIGHT THEN 16
    ELSE IF c = ACKNOWLEDGMENTS THEN 29
    ELSE IF c = INDD THEN 10
    ELSE IF c = DATE THEN 6
    ELSE IF c = AM THEN 2
    ELSE IF c \in {FOR_MY, READERS} THEN 7
    ELSE 1

\* len(str)
RECURSIVE strlen(_)
strlen(str) == IF str = <<>> THEN 0 ELSE SymLen(Head(str)) + strlen(Tail(str))

IsSpace(c) == c \in {SP, NL}

\* a symbol made of word characters (\w)
IsWord(c) == c \notin {SP, NL, DOT, BANG, QM, COMMA, PIPE}

\* str.strip()
strip(str) ==
    LET keep == { i \in 1..Len(str) : ~IsSpace(str[i]) }
    IN  IF keep = {} THEN <<>>
        ELSE SubSeq(str, CHOOSE i \in keep : \A j \in keep : i <= j,
                         CHOOSE i \in keep : \A j \in keep : j <= i)

\* str.lower() of one symbol
LowerSym(c) == IF c = RAY THEN RAY_L ELSE IF c = JULIA THEN JULIA_L ELSE c

\* len(str.split()): the whitespace-separated words
RECURSIVE InnerWords(_)
InnerWords(str) ==
    IF str = <<>> THEN 0
    ELSE (IF Head(str) >= WordsBase THEN Head(str) - WordsBase - 1 ELSE 0)
           + InnerWords(Tail(str))

word_count(str) ==
    Cardinality({ i \in 1..Len(str) :
                    ~IsSpace(str[i]) /\ (i = 1 \/ IsSpace(str[i - 1])) })
      + InnerWords(str)

\* sep.join(list)
RECURSIVE join(_, _)
join(list, sep) ==
    IF list = <<>> THEN <<>>
    ELSE IF Len(list) = 1 THEN list[1]
    ELSE list[1] \o sep \o join(Tail(list), sep)

\* str.split(sep) for a separator of one or two symbols
RECURSIVE split(_, _)
split(str, sep) ==
    LET n    == Len(sep)
        hits == { i \in 1..(Len(str) - n + 1) : SubSeq(str, i, i + n - 1) = sep }
    IN  IF hits = {} THEN <<str>>
        ELSE LET i == CHOOSE h \in hits : \A g \in hits : h <= g
             IN  <<SubSeq(str, 1, i - 1)>> \o split(SubSeq(str, i + n, Len(str)), sep)

\* str.startswith(word) for a word that is one symbol
startswith(str, word) == str # <<>> /\ str[1] = word

\* (' ' + word + ' ') in str[:limit]
contains_word(str, word, limit) ==
    \E i \in 1..(Len(str) - 2) :
        /\ str[i] = SP /\ str[i + 1] = word /\ str[i + 2] = SP
        /\ strlen(SubSeq(str, 1, i + 2)) <= limit

\* the sum of a sequence of numbers
RECURSIVE Sum(_)
Sum(ns) == IF ns = <<>> THEN 0 ELSE Head(ns) + Sum(Tail(ns))

\* the texts made of at most n of the given units
RECURSIVE Concat(_)
Concat(list) == IF list = <<>> THEN <<>> ELSE Head(list) \o Concat(Tail(list))

TextsOf(units, n) ==
    UNION { { Concat(us) : us \in [1..k -> units] } : k \in 0..n }

(***************************************************************************)
(* CharacterVoiceManager.smart_split_by_speaker                            *)
(* (character_voice_manager.py 187-288)                                    *)
(***************************************************************************)
\* line 209
MAX_CHARS_PER_CHUNK == 800
\* line 187: the default of max_chunk_size (words)
max_chunk_size == 250

\* self.characters, in insertion order, with name.split()[0].lower()
characters ==
    << [name |-> "Ray", first_name |-> RAY_L, gender |-> "male",
        keywords |-> <<DETECTIVE>>, voice_file |-> "reference_audio/ray.wav"],
       [name |-> "Julia", first_name |-> JULIA_L, gender |-> "female",
        keywords |-> <<>>, voice_file |-> "reference_audio/julia.wav"] >>

\* a symbol that begins with a capital letter ([A-Z])
StartsUpper(c) == c \in {RAY, JULIA, COPYRIGHT, ACKNOWLEDGMENTS, INDD, AM, FOR_MY, READERS}

\* the least element of a non-empty set of positions
First(ps) == CHOOSE p \in ps : \A q \in ps : p <= q

\* no newline in str[a..b], what "." matches without DOTALL
SameLine(str, a, b) == \A k \in a..b : str[k] # NL

\* lines 71-72: re.sub(r'Copyright © \d{4}.*?(?=\n\n[A-Z]|\Z)', '', ..., DOTALL):
\* each notice is removed up to the first blank line followed by a capital,
\* or up to the end of the text
RECURSIVE remove_copyright(_)
remove_copyright(str) ==
    LET starts == { i \in 1..Len(str) : str[i] = COPYRIGHT }
    IN  IF starts = {} THEN str
        ELSE LET i    == First(starts)
                 ends == { p \in (i + 1)..(Len(str) + 1) :
                             \/ p = Len(str) + 1
                             \/ /\ p + 2 <= Len(str)
                                /\ str[p] = NL /\ str[p + 1] = NL
                                /\ StartsUpper(str[p + 2]) }
                 e    == First(ends)
             IN  SubSeq(str, 1, i - 1) \o remove_copyright(SubSeq(str, e, Len(str)))

\* lines 75-76: re.sub(r'A C K N O W L E D G M E N T S.*', '', ..., DOTALL)
remove_acknowledgments(str) ==
    LET starts == { i \in 1..Len(str) : str[i] = ACKNOWLEDGMENTS }
    IN  IF starts = {} THEN str ELSE SubSeq(str, 1, First(starts) - 1)

\* line 79: re.sub(r'INT_\d+\.indd.*?\d{1,2}/\d{1,2}/\d{2,4}.*?[AP]M', '', ...):
\* a marker runs from the file name over the first date to the first AM/PM
\* after it, all on one line
RECURSIVE remove_page_markers(_)
remove_page_markers(str) ==
    LET ends(i) == { a \in (i + 2)..Len(str) :
                       /\ str[a] = AM
                       /\ SameLine(str, i, a)
                       /\ \E d \in (i + 1)..(a - 1) : str[d] = DATE }
        starts  == { i \in 1..Len(str) : str[i] = INDD /\ ends(i) # {} }
    IN  IF starts = {} THEN str
        ELSE LET i == First(starts)
                 a == First(ends(i))
             IN  SubSeq(str, 1, i - 1)
                   \o remove_page_markers(SubSeq(str, a + 1, Len(str)))

\* line 82: re.sub(r'FOR MY READERS.*?\n', '', ...): the note is removed up to
\* and including the end of its line
RECURSIVE remove_reader_notes(_)
remove_reader_notes(str) ==
    LET ends(i) == { n \in (i + 2)..Len(str) : str[n] = NL }
        starts  == { i \in 1..(Len(str) - 1) :
                       str[i] = FOR_MY /\ str[i + 1] = READERS /\ ends(i) # {} }
    IN  IF starts = {} THEN str
        ELSE LET i == First(starts)
                 n == First(ends(i))
             IN  SubSeq(str, 1, i - 1)
                   \o remove_reader_notes(SubSeq(str, n + 1, Len(str)))

\* filter_text, line 84: runs of three or more newlines become two
RECURSIVE squeeze_newlines(_)
squeeze_newlines(str) ==
    IF Len(str) >= 3 /\ str[1] = NL /\ str[2] = NL /\ str[3] = NL
    THEN squeeze_newlines(Tail(str))
    ELSE IF str = <<>> THEN <<>>
    ELSE <<Head(str)>> \o squeeze_newlines(Tail(str))

filter_text(str) ==
    strip(squeeze_newlines(remove_reader_notes(remove_page_markers(
        remove_acknowledgments(remove_copyright(str))))))

\* line 200
paragraphs_of(str) ==
    LET ps == split(str, <<NL, NL>>)
    IN  SelectSeq([i \in 1..Len(ps) |-> strip(ps[i])], LAMBDA q : q # <<>>)

\* lines 217-226: the first character whose first name starts the paragraph
\* or stands as a word in its first 30 characters; "None" without one
detected_speaker(para) ==
    LET para_start == [i \in 1..Len(para) |-> LowerSym(para[i])]
        hits == { k \in 1..Len(characters) :
                    \/ startswith(para_start, characters[k].first_name)
                    \/ contains_word(para_start, characters[k].first_name, 30) }
    IN  IF hits = {} THEN "None"
        ELSE characters[CHOOSE k \in hits : \A h \in hits : k <= h].name

\* lines 211-248: the loop body for one paragraph
split_step(st, para) ==
    LET para_words == word_count(para)
        para_chars == strlen(para)
        detected   == detected_speaker(para)
        by_speaker == /\ detected # "None"
                      /\ st.current_chunk # <<>>
                      /\ detected # st.current_speaker
        current_chunk_chars == strlen(join(st.current_chunk, <<NL, NL>>))
        by_size    == \/ /\ current_chunk_chars + para_chars > MAX_CHARS_PER_CHUNK
                         /\ st.current_chunk # <<>>
                      \/ /\ st.current_words + para_words > max_chunk_size
                         /\ st.current_chunk # <<>>
        speaker    == IF detected # "None" THEN detected ELSE st.current_speaker
    IN  IF by_speaker \/ by_size
        THEN [ chunks |-> Append(st.chunks, join(st.current_chunk, <<NL, NL>>)),
               current_chunk |-> <<para>>, current_words |-> para_words,
               current_speaker |-> speaker ]
        ELSE [ chunks |-> st.chunks,
               current_chunk |-> Append(st.current_chunk, para),
               current_words |-> st.current_words + para_words,
               current_speaker |-> speaker ]

RECURSIVE split_loop(_, _)
split_loop(st, paragraphs) ==
    IF paragraphs = <<>> THEN st
    ELSE split_loop(split_step(st, Head(paragraphs)), Tail(paragraphs))

\* lines 200-252: the chunks before post-processing
speaker_chunks(str) ==
    LET st == split_loop([ chunks |-> <<>>, current_chunk |-> <<>>,
                           current_words |-> 0, current_speaker |-> "None" ],
                         paragraphs_of(str))
    IN  IF st.current_chunk # <<>>
        THEN Append(st.chunks, join(st.current_chunk, <<NL, NL>>))
        ELSE st.chunks

\* line 261: replace('! ', '!|').replace('? ', '?|').replace('. ', '.|')
mark_sentence_ends(str) ==
    [ i \in 1..Len(str) |->
        IF i > 1 /\ str[i] = SP /\ str[i - 1] \in {BANG, QM, DOT} THEN PIPE ELSE str[i] ]

\* lines 261, 266-268: the stripped, non-empty sentences of a chunk
sentences_of(chunk) ==
    LET parts == split(mark_sentence_ends(chunk), <<PIPE>>)
    IN  SelectSeq([i \in 1..Len(parts) |-> strip(parts[i])], LAMBDA q : q # <<>>)

\* lines 265-281: greedy packing of the sentences
RECURSIVE pack_sentences(_, _, _)
pack_sentences(sentences, sub_chunk, sub_chunk_chars) ==
    IF sentences = <<>>
    THEN (IF sub_chunk # <<>> THEN <<join(sub_chunk, <<SP>>)>> ELSE <<>>)
    ELSE LET sentence == Head(sentences)
             sentence_chars == strlen(sentence)
         IN  IF sub_chunk_chars + sentence_chars > MAX_CHARS_PER_CHUNK
                  /\ sub_chunk # <<>>
             THEN <<join(sub_chunk, <<SP>>)>>
                    \o pack_sentences(Tail(sentences), <<sentence>>, sentence_chars)
             ELSE pack_sentences(Tail(sentences), Append(sub_chunk, sentence),
                                 sub_chunk_chars + sentence_chars)

\* a function that returns the chunks without the post-processing pass
post_process_none(chunks) == chunks

\* lines 254-286
post_process(chunks) ==
    LET final(chunk) ==
          IF strlen(chunk) <= MAX_CHARS_PER_CHUNK THEN <<chunk>>
          ELSE pack_sentences(sentences_of(chunk), <<>>, 0)
    IN  Concat([i \in 1..Len(chunks) |-> final(chunks[i])])

smart_split_by_speaker(str) == post_process(speaker_chunks(str))

\* the number of units a generated text is made of
MaxPieces == 4

\* sentences of 400, 798, 799 and 800 characters, 126 one-letter words, a
\* sentence holding a '|', the two names, a paragraph break
SplitUnits ==
    { <<MAX_CHARS_PER_CHUNK \div 2 - 1, DOT, SP>>,
      <<MAX_CHARS_PER_CHUNK - 3, DOT, SP>>,
      <<MAX_CHARS_PER_CHUNK - 2, DOT, SP>>,
      <<MAX_CHARS_PER_CHUNK - 1, DOT, SP>>,
      <<Words(max_chunk_size \div 2 + 1), DOT, SP>>,
      <<3, PIPE, 3, DOT, SP>>,
      <<RAY, SP>>,
      <<JULIA, SP>>,
      <<NL, NL>> }

\* the filtered texts handed to the segmenter (audiobook_tts_pdf.py 47, 160)
FilteredTexts == { filter_text(t) : t \in TextsOf(SplitUnits, MaxPieces) }

InitSplit ==
    /\ RestIdle
    /\ \E t \in FilteredTexts :
         pure = [fn |-> "smart_split_by_speaker", text |-> t, done |-> FALSE,
                 result |-> <<>>]

SmartSplitBySpeaker ==
    /\ pure.fn = "smart_split_by_speaker"
    /\ ~pure.done
    /\ pure' = [pure EXCEPT !.done = TRUE, !.result = smart_split_by_speaker(pure.text)]
    /\ PureFrame

NextSplit == SmartSplitBySpeaker

SpecSplit == InitSplit /\ [][NextSplit]_vars

SplitDone == pure.fn = "smart_split_by_speaker" /\ pure.done

\* C13: every emitted segment is at most MAX_CHARS_PER_CHUNK characters long,
\* unless it is one single sentence that is itself longer
C13_SegmentsWithinBound ==
    SplitDone =>
        \A i \in 1..Len(pure.result) :
            \/ strlen(pure.result[i]) <= MAX_CHARS_PER_CHUNK
            \/ /\ split(pure.result[i], <<NL, NL>>) = <<pure.result[i]>>
               /\ Len(sentences_of(pure.result[i])) = 1

\* the characters of a text that are not whitespace, in order
NonWhitespace(str) == SelectSeq(str, LAMBDA c : ~IsSpace(c))

\* C16: the segments joined in order by one separator hold the characters of
\* the input other than whitespace: none lost, none added, none reordered
C16_RoundTrip ==
    SplitDone =>
        NonWhitespace(join(pure.result, <<SP>>)) = NonWhitespace(pure.text)

\* a text of 2 * MAX_CHARS_PER_CHUNK characters without a paragraph break
\* whose sentences each fit
TwiceMaxOfFittingSentences ==
    /\ SplitDone
    /\ strlen(pure.text) = 2 * MAX_CHARS_PER_CHUNK
    /\ split(pure.text, <<NL, NL>>) = <<pure.text>>
    /\ \A k \in 1..Len(sentences_of(pure.text)) :
          strlen(sentences_of(pure.text)[k]) <= MAX_CHARS_PER_CHUNK

Distance(a, b) == IF a >= b THEN a - b ELSE b - a

\* the offsets in the text at which a sentence ends and another follows
SentenceBoundaries ==
    LET sents == sentences_of(pure.text)
    IN  { strlen(join(SubSeq(sents, 1, k), <<SP>>)) : k \in 1..(Len(sents) - 1) }

SingleSpaced == pure.text = join(sentences_of(pure.text), <<SP>>)

SentenceChars(segment) ==
    Sum([k \in 1..Len(sentences_of(segment)) |-> strlen(sentences_of(segment)[k])])

MAX_SEGMENT_LENGTH == 250
SAFE_SEGMENT_LENGTH == 200

\* re.split(r'(?<=[marks])\s+', str): cut at every run of whitespace that
\* follows one of the marks; the run is dropped, an empty tail is kept
RECURSIVE regex_split(_, _)
regex_split(str, marks) ==
    LET hits == { i \in 1..(Len(str) - 1) : str[i] \in marks /\ IsSpace(str[i + 1]) }
    IN  IF hits = {} THEN <<str>>
        ELSE LET i == CHOOSE h \in hits : \A g \in hits : h <= g
                 j == CHOOSE m \in (i + 1)..Len(str) :
                        /\ \A q \in (i + 1)..m : IsSpace(str[q])
                        /\ (m = Len(str) \/ ~IsSpace(str[m + 1]))
             IN  <<SubSeq(str, 1, i)>> \o regex_split(SubSeq(str, j + 1, Len(str)), marks)

\* lines 197-216 and 219-236: one part (a sentence, or a clause of an
\* over-long sentence) is packed into the current chunk or starts a new one
\* (the clauses are cut after ',' only: no ';' occurs in the texts)
pack_part(st, part, max_chars) ==
    IF st.current_length + strlen(part) > max_chars /\ st.current_chunk # <<>>
    THEN [ segments |-> Append(st.segments, join(st.current_chunk, <<SP>>)),
           current_chunk |-> <<part>>, current_length |-> strlen(part) ]
    ELSE [ segments |-> st.segments,
           current_chunk |-> Append(st.current_chunk, part),
           current_length |-> st.current_length + strlen(part) ]

RECURSIVE pack_parts(_, _, _)
pack_parts(st, parts, max_chars) ==
    IF parts = <<>> THEN st
    ELSE pack_parts(pack_part(st, Head(parts), max_chars), Tail(parts), max_chars)

\* lines 189-236: the loop over the sentences
RECURSIVE segment_loop(_, _, _)
segment_loop(st, sentences, max_chars) ==
    IF sentences = <<>> THEN st
    ELSE LET sentence == Head(sentences)
             parts == IF strlen(sentence) > max_chars
                      THEN regex_split(sentence, {COMMA})
                      ELSE <<sentence>>
         IN  segment_loop(pack_parts(st, parts, max_chars), Tail(sentences), max_chars)

\* lines 177-178: the maximum in force
effective_max_chars(max_chars) ==
    IF max_chars > MAX_SEGMENT_LENGTH THEN SAFE_SEGMENT_LENGTH ELSE max_chars

\* lines 176-249: the texts of the segments
segment_texts(str, max_chars) ==
    LET st == segment_loop([segments |-> <<>>, current_chunk |-> <<>>,
                            current_length |-> 0],
                           regex_split(str, {DOT, BANG, QM}),
                           effective_max_chars(max_chars))
    IN  IF st.current_chunk # <<>>
        THEN Append(st.segments, join(st.current_chunk, <<SP>>))
        ELSE st.segments

\* lines 176-282: the returned dictionary (positions and statistics left out)
segment_text(str, max_chars) ==
    LET texts == segment_texts(str, max_chars)
    IN  [ status |-> "success",
          segments |-> [i \in 1..Len(texts) |->
                          [index |-> i - 1, text |-> texts[i], length |-> strlen(texts[i])]],
          chunks |-> [i \in 1..Len(texts) |->
                          [id |-> i - 1, text |-> texts[i], voice |-> "neutral"]],
          total_segments |-> Len(texts) ]

\* sentences of 100 and 200 characters, a clause of 100 characters, a
\* sentence of 300 characters, a newline
SegmentUnits ==
    { <<SAFE_SEGMENT_LENGTH \div 2 - 1, DOT, SP>>,
      <<SAFE_SEGMENT_LENGTH - 1, DOT, SP>>,
      <<SAFE_SEGMENT_LENGTH \div 2 - 1, COMMA, SP>>,
      <<SAFE_SEGMENT_LENGTH + MAX_SEGMENT_LENGTH \div 2 - 26, DOT, SP>>,
      <<NL>> }

\* the maximum asked for: below, at and above the values of constants.py
MaxCharsChoices == { SAFE_SEGMENT_LENGTH \div 2, SAFE_SEGMENT_LENGTH,
                     MAX_SEGMENT_LENGTH, 4 * SAFE_SEGMENT_LENGTH }

InitSegment ==
    /\ RestIdle
    /\ \E t \in TextsOf(SegmentUnits, MaxPieces), m \in MaxCharsChoices :
         pure = [fn |-> "segment_text", text |-> t, max_chars |-> m, done |-> FALSE,
                 result |-> [status |-> "none", segments |-> <<>>, chunks |-> <<>>,
                             total_segments |-> 0]]

\* the call, with workspace.save_chunks_json(chunks) (lines 253-267)
SegmentText ==
    /\ pure.fn = "segment_text"
    /\ ~pure.done
    /\ LET res == segment_text(pure.text, pure.max_chars)
       IN  /\ pure' = [pure EXCEPT !.done = TRUE, !.result = res]
           /\ chunksFile' =
                [ kind |-> "json",
                  chunks |-> [i \in 1..Len(res.chunks) |->
                                [id |-> res.chunks[i].id, voice |-> res.chunks[i].voice]] ]
    /\ UNCHANGED <<job, lastCall, stateFile, settings, engine, audio, providers, exec>>

NextSegment == SegmentText

SpecSegment == InitSegment /\ [][NextSegment]_vars

SegmentDone == pure.fn = "segment_text" /\ pure.done

\* C14: every segment returned is at most as long as the maximum in force
\* for the call
C14_SegmentsWithinMax ==
    SegmentDone =>
        \A i \in 1..Len(pure.result.segments) :
            strlen(pure.result.segments[i].text) <= effective_max_chars(pure.max_chars)

\* C15: for the empty text the call succeeds with no segment and writes no
\* chunk
C15_EmptyTextNoSegments ==
    (SegmentDone /\ pure.text = <<>>)
        => /\ pure.result.status = "success"
           /\ pure.result.segments = <<>>
           /\ chunksFile.kind = "json" /\ chunksFile.chunks = <<>>

(***************************************************************************)
(* CharacterVoiceManager.detect_speaker (character_voice_manager.py        *)
(* 89-185).  In the texts every word is one symbol.                        *)
(***************************************************************************)
\* lines 104-119: (verb, whether the captured word precedes the verb)
dialogue_patterns ==
    << [verb |-> SAID, name_first |-> FALSE], [verb |-> SAID, name_first |-> TRUE],
       [verb |-> REPLIED, name_first |-> FALSE], [verb |-> REPLIED, name_first |-> TRUE],
       [verb |-> ASKED, name_first |-> FALSE], [verb |-> ASKED, name_first |-> TRUE],
       [verb |-> EXCLAIMED, name_first |-> FALSE], [verb |-> EXCLAIMED, name_first |-> TRUE],
       [verb |-> SHOUTED, name_first |-> FALSE], [verb |-> SHOUTED, name_first |-> TRUE],
       [verb |-> WHISPERED, name_first |-> FALSE], [verb |-> WHISPERED, name_first |-> TRUE],
       [verb |-> MUTTERED, name_first |-> FALSE], [verb |-> MUTTERED, name_first |-> TRUE] >>

\* the last index of the run of whitespace that starts at i
SpacesEnd(str, i) ==
    CHOOSE m \in i..Len(str) :
        /\ \A q \in i..m : IsSpace(str[q])
        /\ (m = Len(str) \/ ~IsSpace(str[m + 1]))

\* the last index of the run of word symbols that starts at i
WordEnd(str, i) ==
    CHOOSE m \in i..Len(str) :
        /\ \A q \in i..m : IsWord(str[q])
        /\ (m = Len(str) \/ ~IsWord(str[m + 1]))

\* the match of one pattern that starts at symbol i, if there is one:
\* verb \s+ (\w+), or (\w+) \s+ verb
match_at(str, pat, i) ==
    IF pat.name_first
    THEN IF ~IsWord(str[i]) THEN [ok |-> FALSE, group |-> <<>>, stop |-> i]
         ELSE LET b == WordEnd(str, i)
              IN  IF b + 1 > Len(str) \/ ~IsSpace(str[b + 1])
                  THEN [ok |-> FALSE, group |-> <<>>, stop |-> i]
                  ELSE LET j == SpacesEnd(str, b + 1)
                       IN  [ ok |-> j + 1 <= Len(str) /\ str[j + 1] = pat.verb,
                             group |-> SubSeq(str, i, b), stop |-> j + 1 ]
    ELSE IF str[i] # pat.verb \/ i + 1 > Len(str) \/ ~IsSpace(str[i + 1])
    THEN [ok |-> FALSE, group |-> <<>>, stop |-> i]
    ELSE LET j == SpacesEnd(str, i + 1)
         IN  IF j + 1 > Len(str) \/ ~IsWord(str[j + 1])
             THEN [ok |-> FALSE, group |-> <<>>, stop |-> i]
             ELSE [ ok |-> TRUE,
                    group |-> SubSeq(str, j + 1, WordEnd(str, j + 1)),
                    stop |-> WordEnd(str, j + 1) ]

\* re.finditer(pattern, str): the captured words of the matches found from
\* symbol p on, left to right, each search resuming where the last match ended
RECURSIVE finditer(_, _, _)
finditer(str, pat, p) ==
    LET starts == { i \in p..Len(str) : match_at(str, pat, i).ok }
    IN  IF starts = {} THEN <<>>
        ELSE LET i == CHOOSE h \in starts : \A g \in starts : h <= g
                 m == match_at(str, pat, i)
             IN  <<m.group>> \o finditer(str, pat, m.stop + 1)

\* the index of the character whose first name is the word; 0 without one
known_first_name(word, chars) ==
    LET hits == { c \in 1..Len(chars) : word = <<chars[c].first_name>> }
    IN  IF hits = {} THEN 0 ELSE CHOOSE c \in hits : \A h \in hits : c <= h

Least(pairs) ==
    CHOOSE x \in pairs : \A y \in pairs : x[1] < y[1] \/ (x[1] = y[1] /\ x[2] <= y[2])

\* lines 121-129: strategy 1, the first match, in pattern order, of a known
\* first name; 0 without one
by_attribution(text_lower, chars) ==
    LET groups == [k \in 1..Len(dialogue_patterns) |->
                     finditer(text_lower, dialogue_patterns[k], 1)]
        hits == { <<k, m>> \in (1..Len(dialogue_patterns)) \X (1..Len(text_lower)) :
                    /\ m <= Len(groups[k])
                    /\ known_first_name(groups[k][m], chars) # 0 }
    IN  IF hits = {} THEN 0
        ELSE LET first == Least(hits)
             IN  known_first_name(groups[first[1]][first[2]], chars)

FirstOf(set) == IF set = {} THEN 0 ELSE CHOOSE c \in set : \A h \in set : c <= h

\* lines 131-136: strategy 2, the text starts with a first name
by_paragraph_start(text_lower, chars) ==
    FirstOf({ c \in 1..Len(chars) : startswith(text_lower, chars[c].first_name) })

\* lines 138-144: strategy 3, a first name starts the first sentence or is a
\* word in its first 50 characters
by_first_sentence(text_lower, chars) ==
    LET first_sentence == IF \E i \in 1..Len(text_lower) : text_lower[i] = DOT
                          THEN split(text_lower, <<DOT>>)[1]
                          ELSE text_lower
    IN  FirstOf({ c \in 1..Len(chars) :
                    \/ startswith(first_sentence, chars[c].first_name)
                    \/ contains_word(first_sentence, chars[c].first_name, 50) })

\* text_lower.split().count(p) summed over the pronouns
pronoun_count(text_lower, pronouns) ==
    Cardinality({ i \in 1..Len(text_lower) :
                    /\ text_lower[i] \in pronouns
                    /\ (i = 1 \/ IsSpace(text_lower[i - 1]))
                    /\ (i = Len(text_lower) \/ IsSpace(text_lower[i + 1])) })

\* lines 150-151
feminine_pronouns == {SHE, HER, HERSELF}
masculine_pronouns == {HE, HIM, HIMSELF}

\* lines 157-169
score(text_lower, info) ==
    LET fem_count  == pronoun_count(text_lower, feminine_pronouns)
        masc_count == pronoun_count(text_lower, masculine_pronouns)
        base == IF info.gender = "female" /\ fem_count > 0 THEN fem_count
                ELSE IF info.gender = "male" /\ masc_count > 0 THEN masc_count
                ELSE 0
    IN  base + 5 * Cardinality({ k \in 1..Len(info.keywords) :
                                   \E i \in 1..Len(text_lower) :
                                       text_lower[i] = info.keywords[k] })

\* lines 171-177: strategy 4, the first character with the highest score,
\* if that score is above zero
by_score(text_lower, chars) ==
    FirstOf({ c \in 1..Len(chars) :
                /\ score(text_lower, chars[c]) > 0
                /\ \A d \in 1..Len(chars) :
                      score(text_lower, chars[d]) <= score(text_lower, chars[c]) })

\* lines 179-185
narrator(text_lower) ==
    LET fem_count  == pronoun_count(text_lower, feminine_pronouns)
        masc_count == pronoun_count(text_lower, masculine_pronouns)
    IN  IF fem_count > masc_count
        THEN [name |-> "Narrator (Female)", voice_file |-> "reference_audio/female.wav"]
        ELSE IF masc_count > fem_count
        THEN [name |-> "Narrator (Male)", voice_file |-> "reference_audio/male.wav"]
        ELSE [name |-> "Narrator (Female)", voice_file |-> "reference_audio/female.wav"]

\* the first of the strategies, in the given order, that names a character
cascade(strategies, chars, text_lower) ==
    LET found == { k \in 1..Len(strategies) : strategies[k] # 0 }
    IN  IF found = {} THEN narrator(text_lower)
        ELSE LET c == strategies[CHOOSE k \in found : \A h \in found : k <= h]
             IN  [name |-> chars[c].name, voice_file |-> chars[c].voice_file]

\* a cascade that looks at the start of the paragraph before the attributions
detect_speaker_start_first(str, chars) ==
    LET text_lower == [i \in 1..Len(str) |-> LowerSym(str[i])]
    IN  cascade(<< by_paragraph_start(text_lower, chars),
                   by_attribution(text_lower, chars),
                   by_first_sentence(text_lower, chars),
                   by_score(text_lower, chars) >>, chars, text_lower)

\* lines 89-185
detect_speaker(str, chars) ==
    LET text_lower == [i \in 1..Len(str) |-> LowerSym(str[i])]
    IN  cascade(<< by_attribution(text_lower, chars),
                   by_paragraph_start(text_lower, chars),
                   by_first_sentence(text_lower, chars),
                   by_score(text_lower, chars) >>, chars, text_lower)

\* the registries: none, one and two characters
Registries == { SubSeq(characters, 1, n) : n \in 0..Len(characters) }

\* the number of words of a text handed to detect_speaker
MaxWords == 3

\* the two names, one also before a comma, a verb, pronouns alone and
\* before a full stop, a long word, a keyword
DetectUnits ==
    { <<RAY, SP>>, <<JULIA, SP>>, <<JULIA, COMMA, SP>>, <<SAID, SP>>, <<SHE, SP>>,
      <<HE, SP>>, <<HER, DOT, SP>>, <<48, SP>>, <<DETECTIVE, SP>> }

\* the chunks handed to detect_speaker are stripped (lines 200, 268)
DetectTexts == { strip(t) : t \in TextsOf(DetectUnits, MaxWords) }

InitDetect ==
    /\ RestIdle
    /\ \E t \in DetectTexts, r \in Registries :
         pure = [fn |-> "detect_speaker", text |-> t, chars |-> r, done |-> FALSE,
                 result |-> [name |-> "", voice_file |-> ""]]

DetectSpeaker ==
    /\ pure.fn = "detect_speaker"
    /\ ~pure.done
    /\ pure' = [pure EXCEPT !.done = TRUE,
                            !.result = detect_speaker(pure.text, pure.chars)]
    /\ PureFrame

NextDetect == DetectSpeaker

SpecDetect == InitDetect /\ [][NextDetect]_vars

DetectDone == pure.fn = "detect_speaker" /\ pure.done

TextLower == [i \in 1..Len(pure.text) |-> LowerSym(pure.text[i])]

\* the symbol that follows the whitespace after symbol i; SP without one
AfterSpaces(i) ==
    IF i + 1 > Len(TextLower) \/ ~IsSpace(TextLower[i + 1]) THEN SP
    ELSE IF SpacesEnd(TextLower, i + 1) = Len(TextLower) THEN SP
    ELSE TextLower[SpacesEnd(TextLower, i + 1) + 1]

\* at symbol i the text reads "<verb> <first name of c>" (k even: "<first
\* name of c> <verb>"), the name standing as a whole word
Attribution(k, i, c) ==
    LET verb == dialogue_patterns[k].verb
        name == pure.chars[c].first_name
    IN  IF dialogue_patterns[k].name_first
        THEN /\ TextLower[i] = name
             /\ (i = 1 \/ ~IsWord(TextLower[i - 1]))
             /\ AfterSpaces(i) = verb
        ELSE /\ TextLower[i] = verb
             /\ AfterSpaces(i) = name
             /\ \A q \in 1..Len(TextLower) :
                  (q > i + 1 /\ TextLower[q] = name /\ \A m \in (i + 1)..(q - 1) :
                        IsSpace(TextLower[m]))
                    => (q = Len(TextLower) \/ ~IsWord(TextLower[q + 1]))

Attributed ==
    { c \in 1..Len(pure.chars) :
        \E k \in 1..Len(dialogue_patterns), i \in 1..Len(TextLower) : Attribution(k, i, c) }

VerbRepeated ==
    \E k \in 1..Len(dialogue_patterns), i \in 1..Len(TextLower) :
        TextLower[i] = dialogue_patterns[k].verb /\ AfterSpaces(i) = TextLower[i]

\* the attribution found first: the earliest pattern of the list that has
\* one, and its leftmost place in the text
FirstAttribution ==
    Least({ <<k, i>> \in (1..Len(dialogue_patterns)) \X (1..Len(TextLower)) :
              \E c \in 1..Len(pure.chars) : Attribution(k, i, c) })

Pronouns(class) == Cardinality({ i \in 1..Len(TextLower) : TextLower[i] \in class })

\* C19: when no strategy names a character and no character scores above
\* zero, the narrator returned is the male one if the masculine pronouns
\* outnumber the feminine ones and the female one otherwise
C19_NarratorByPronounDominance ==
    ( /\ DetectDone
      /\ by_attribution(TextLower, pure.chars) = 0
      /\ by_paragraph_start(TextLower, pure.chars) = 0
      /\ by_first_sentence(TextLower, pure.chars) = 0
      /\ \A c \in 1..Len(pure.chars) : score(TextLower, pure.chars[c]) = 0 )
        => pure.result.name =
              IF Pronouns(masculine_pronouns) > Pronouns(feminine_pronouns)
              THEN "Narrator (Male)" ELSE "Narrator (Female)"


----------------------------------------------------------------------------
\* Voice resolution order (voice_tools.py, assign_voice_profile 144-175)

VoiceDone == pure.fn = "assign_voice_profile" /\ pure.result.status # "none"

\* the assets the resolution is said to try, in order
VoiceCandidates(character_name, gender) ==
    <<character_audio(character_name)>>
        \o (IF lower(gender) \in MaleWords THEN <<male_wav>>
            ELSE IF lower(gender) \in FemaleWords THEN <<female_wav>>
            ELSE <<>>)
        \o <<narrator_wav>>

FirstExisting(candidates, files) ==
    candidates[CHOOSE i \in 1..Len(candidates) :
                  /\ candidates[i] \in files
                  /\ \A k \in 1..(i - 1) : candidates[k] \notin files]

\* C21: the resolution tries the asset named after the normalized label, the
\* gender default (male/female) and the narrator asset in this order, returns
\* the first that exists, and fails only if none of them exists.
C21_ResolutionOrder ==
    VoiceDone =>
        LET candidates == VoiceCandidates(pure.character_name, pure.gender)
        IN  (\E i \in 1..Len(candidates) : candidates[i] \in pure.files)
                => /\ pure.result.status = "success"
                   /\ pure.result.reference_audio = FirstExisting(candidates, pure.files)

\* C22: when the asset named after the normalized label exists, the call
\* succeeds and the profile's reference audio is that file.
C22_CharacterAssetUsed ==
    (VoiceDone /\ character_audio(pure.character_name) \in pure.files)
        => /\ pure.result.status = "success"
           /\ pure.result.reference_audio = character_audio(pure.character_name)


(***************************************************************************)
(* filter_unwanted_content (saa/tools/text_tools.py 298-384); the same     *)
(* rules in the same order as CharacterVoiceManager.filter_text            *)
(***************************************************************************)
MaxPasses == 2

\* lines 320-368
filter_unwanted_content(str) ==
    LET f1 == remove_copyright(str)
        f2 == remove_acknowledgments(f1)
        f3 == remove_page_markers(f2)
        f4 == remove_reader_notes(f3)
    IN  [status           |-> "success",
         filtered_text    |-> strip(squeeze_newlines(f4)),
         removed_sections |->
             (IF f1 # str THEN <<"copyright_notice">> ELSE <<>>)
               \o (IF f2 # f1 THEN <<"acknowledgments">> ELSE <<>>)
               \o (IF f3 # f2 THEN <<"page_markers">> ELSE <<>>)
               \o (IF f4 # f3 THEN <<"reader_notes">> ELSE <<>>)]

FilterUnits ==
    { <<1>>, <<NL>>, <<RAY>>, <<COPYRIGHT>>, <<ACKNOWLEDGMENTS>>, <<INDD>>,
      <<DATE, AM>>, <<FOR_MY>>, <<READERS>>, <<FOR_MY, READERS, NL>> }

InitFilter ==
    /\ RestIdle
    /\ \E t \in TextsOf(FilterUnits, MaxPieces) :
         pure = [fn |-> "filter_unwanted_content", text |-> t, results |-> <<>>]

\* one call; a later call is given the text the call before it returned
FilterUnwantedContent ==
    /\ pure.fn = "filter_unwanted_content"
    /\ Len(pure.results) < MaxPasses
    /\ pure' = [pure EXCEPT !.results =
                   Append(@, filter_unwanted_content(
                                 IF @ = <<>> THEN pure.text
                                 ELSE @[Len(@)].filtered_text))]
    /\ PureFrame

NextFilter == FilterUnwantedContent

SpecFilter == InitFilter /\ [][NextFilter]_vars

\* C23: filtering is idempotent: filtering a text that was already filtered
\* returns it unchanged, filter(filter(t)) = filter(t).
C23_FilterIdempotent ==
    pure.fn = "filter_unwanted_content"
        => \A k \in 2..Len(pure.results) :
              pure.results[k].filtered_text = pure.results[1].filtered_text


(***************************************************************************)
(* The chunk files handed to the merge (saa/utils/workspace.py 77-84,      *)
(* saa/agents/merge_agent.py 16-46)                                        *)
(***************************************************************************)
\* str(n): the decimal digits of n as character codes ('0' is 48)
RECURSIVE decimal(_)
decimal(n) == IF n < 10 THEN <<48 + n>> ELSE decimal(n \div 10) \o <<48 + (n % 10)>>

\* f"{n:04d}": zero-padded to at least four digits
format_04d(n) ==
    LET ds == decimal(n)
    IN  IF Len(ds) >= 4 THEN ds ELSE [i \in 1..(4 - Len(ds)) |-> 48] \o ds

\* the file name "chunk_{chunk_id:04d}.wav" as character codes
get_voice_chunk_path(chunk_id) ==
    <<99, 104, 117, 110, 107, 95>> \o format_04d(chunk_id) \o <<46, 119, 97, 118>>

\* a < b for two strings: the order sorted() uses
str_lt(a, b) ==
    \E i \in 1..Len(b) :
        /\ \A k \in 1..(i - 1) : k <= Len(a) /\ a[k] = b[k]
        /\ \/ i = Len(a) + 1
           \/ i <= Len(a) /\ a[i] < b[i]

\* sorted(names)
RECURSIVE sorted(_)
sorted(names) ==
    IF names = {} THEN <<>>
    ELSE LET least == CHOOSE a \in names : \A b \in names \ {a} : str_lt(a, b)
         IN  <<least>> \o sorted(names \ {least})

\* sorted(self.voices_dir.glob("chunk_*.wav")); list_audio_files sorts the
\* same directory the same way
get_all_voice_chunks(voices_dir) == sorted(voices_dir)

list_audio_files(directory) ==
    [status |-> "success", files |-> sorted(directory), count |-> Cardinality(directory)]

\* chunk ids on both sides of the four-digit padding
VoiceChunkIds == {0, 1, 10, 999, 1000, 9999, 10000, 10001}

NoListing == [status |-> "none", files |-> <<>>, count |-> 0]

InitMergeList ==
    /\ RestIdle
    /\ pure = [fn |-> "list_audio_files", voices_dir |-> {}, result |-> NoListing]

\* a chunk is synthesized into .temp/voices (resume_tools.py line 100), in
\* any order of ids
WriteVoiceChunk ==
    /\ pure.fn = "list_audio_files"
    /\ \E id \in VoiceChunkIds :
         pure' = [pure EXCEPT !.voices_dir = @ \cup {get_voice_chunk_path(id)}]
    /\ PureFrame

ListAudioFiles ==
    /\ pure.fn = "list_audio_files"
    /\ pure' = [pure EXCEPT !.result = list_audio_files(pure.voices_dir)]
    /\ PureFrame

NextMergeList == WriteVoiceChunk \/ ListAudioFiles

SpecMergeList == InitMergeList /\ [][NextMergeList]_vars

\* C24: in the list produced for merging, the file of chunk i precedes the
\* file of chunk j whenever i < j, for any number of segments.
C24_AscendingIdOrder ==
    pure.fn = "list_audio_files"
        => \A i, j \in VoiceChunkIds :
              \A x, y \in 1..Len(pure.result.files) :
                  (/\ i < j
                   /\ pure.result.files[x] = get_voice_chunk_path(i)
                   /\ pure.result.files[y] = get_voice_chunk_path(j))
                      => x < y


(***************************************************************************)
(* synthesize_audio called on its own (tts_tools.py 173-280)               *)
(***************************************************************************)
NoSynthesis == [status |-> "none", synthesis_method |-> "", wrote |-> FALSE, init |-> {}]

InitSynth ==
    /\ RestIdle
    /\ \E p \in Providers, r \in ReplicateOutcomes, l \in LocalOutcomes,
          st \in [tts_provider : {"auto", "replicate", "local"},
                  has_replicate_token : BOOLEAN] :
         pure = [fn |-> "synthesize_audio", provider |-> p, settings |-> st,
                 replicate |-> r, local |-> l, result |-> NoSynthesis]

SynthesizeAudio ==
    /\ pure.fn = "synthesize_audio"
    /\ pure.result.status = "none"
    /\ pure' = [pure EXCEPT !.result =
                   synthesize_audio(pure.provider, pure.settings,
                                    pure.replicate, pure.local)]
    /\ PureFrame

NextSynth == SynthesizeAudio

SpecSynth == InitSynth /\ [][NextSynth]_vars

\* the call has returned and Replicate was the provider selected, by name
\* or through "auto"
ReplicateSelected ==
    /\ pure.fn = "synthesize_audio"
    /\ pure.result.status # "none"
    /\ \/ pure.provider = "replicate"
       \/ pure.provider = "auto" /\ effective_tts_provider(pure.settings) = "replicate"

\* the token is missing or the provider raised one of the Replicate errors
FallbackRequired ==
    \/ ~pure.settings.has_replicate_token
    \/ pure.replicate \in {"ReplicateAuthError", "ReplicateAPIError"}

LocalResult ==
    /\ pure.result.synthesis_method = "local_xtts"
    /\ pure.result.status = pure.local
    /\ pure.result.wrote = (pure.local = "success")

----------------------------------------------------------------------------
\* JobState.pending_segments (job_state.py 86-91), under SpecJob

\* C26: pending_segments is derived, never stored: it is the ascending list
\* of range(total_segments) minus the completed and the failed ids, so the
\* pending ids and the completed and failed ids that lie within the range
\* partition 0..total_segments-1.
C26_PendingDerived ==
    LET all       == 0..(job.total_segments - 1)
        completed == Range(job.completed_segments) \cap all
        failed    == Range(job.failed_segments) \cap all
        pending   == pending_segments(job)
    IN  /\ Range(pending)
             = all \ (Range(job.completed_segments) \cup Range(job.failed_segments))
        /\ \A x, y \in 1..Len(pending) : x < y => pending[x] < pending[y]
        /\ "pending_segments" \notin DOMAIN job
        /\ "pending_segments" \notin DOMAIN to_dict(job)
        /\ Range(pending) \cup completed \cup failed = all
        /\ Range(pending) \cap completed = {}
        /\ Range(pending) \cap failed = {}
        /\ completed \cap failed = {}

\* one id completed, one pending, and a failed id beyond the range, just
\* after a segment was marked failed
C26_Witness ==
    /\ lastCall.op = "mark_segment_failed"
    /\ job.total_segments = 2
    /\ Range(job.completed_segments) = {0}
    /\ Range(job.failed_segments) = {2}
    /\ pending_segments(job) = <<1>>


(***************************************************************************)
(* update_chunk_text (saa/tools/file_tools.py 74-115) on the chunks.json   *)
(* written by segment_text: chunks of id, text, voice, speed and emotion   *)
(***************************************************************************)
\* lines 93-99: the first chunk whose id equals chunk_id gets the new text
RECURSIVE update_first(_, _, _)
update_first(chunks, chunk_id, new_text) ==
    IF chunks = <<>> THEN <<>>
    ELSE IF Head(chunks).id = chunk_id
    THEN <<[Head(chunks) EXCEPT !.text = new_text]>> \o Tail(chunks)
    ELSE <<Head(chunks)>> \o update_first(Tail(chunks), chunk_id, new_text)

\* the function with the id test of line 94 left out: every chunk gets the text
update_chunk_text_every(file, chunk_id, new_text) ==
    IF file.kind = "absent"
    THEN [status |-> "error", error |-> "File not found", file |-> file]
    ELSE IF file.kind = "corrupt"
    THEN [status |-> "error", error |-> "JSONDecodeError", file |-> file]
    ELSE [status |-> "success", error |-> "",
          file |-> [file EXCEPT !.chunks =
                       [k \in 1..Len(file.chunks) |->
                           [file.chunks[k] EXCEPT !.text = new_text]]]]

\* the returned status and the file as the call leaves it
update_chunk_text(file, chunk_id, new_text) ==
    IF file.kind = "absent"
    THEN [status |-> "error", error |-> "File not found", file |-> file]
    ELSE IF file.kind = "corrupt"
    THEN [status |-> "error", error |-> "JSONDecodeError", file |-> file]
    ELSE IF \A k \in 1..Len(file.chunks) : file.chunks[k].id # chunk_id
    THEN [status |-> "error", error |-> "Chunk ID not found", file |-> file]
    ELSE [status |-> "success", error |-> "",
          file |-> [file EXCEPT !.chunks = update_first(@, chunk_id, new_text)]]

\* texts of segments as the Segmenter leaves them: one character, and the
\* longest text the engine accepts
SegmenterTexts == { <<1>>, <<MAX_SEGMENT_LENGTH>> }

\* what a refinement pass may hand over: nothing, a short text, the longest
\* accepted text, a text one character longer
NewTexts == { <<>>, <<2>>, <<MAX_SEGMENT_LENGTH>>, <<MAX_SEGMENT_LENGTH + 1>> }

\* text_tools.py 261-268, and a voice the voice tools may have set
ChunkRegistries ==
    UNION { { [i \in 1..n |-> [id |-> i - 1, text |-> t[i], voice |-> v[i],
                               speed |-> "1.0", emotion |-> "neutral"]]
                : t \in [1..n -> SegmenterTexts], v \in [1..n -> Voices] }
            : n \in 0..MaxChunks }

NoUpdate == [fn |-> "update_chunk_text", called |-> FALSE]

InitRefine ==
    /\ job = NewJobState(0)
    /\ lastCall = NoCall
    /\ stateFile = [kind |-> "absent"]
    /\ chunksFile \in {[kind |-> "absent"], [kind |-> "corrupt"]}
                       \cup { [kind |-> "json", chunks |-> c] : c \in ChunkRegistries }
    /\ settings = [tts_provider |-> "auto", has_replicate_token |-> FALSE]
    /\ engine = [c \in ChunkIds |-> "success"]
    /\ audio = {}
    /\ providers = {}
    /\ exec = IdleExec
    /\ pure = NoUpdate

UpdateChunkText(chunk_id, new_text) ==
    /\ pure.fn = "update_chunk_text"
    /\ LET res == update_chunk_text(chunksFile, chunk_id, new_text)
       IN  /\ chunksFile' = res.file
           /\ pure' = [fn |-> "update_chunk_text", called |-> TRUE,
                       before |-> chunksFile, chunk_id |-> chunk_id,
                       new_text |-> new_text, status |-> res.status,
                       error |-> res.error]
    /\ UNCHANGED <<job, lastCall, stateFile, settings, engine, audio, providers, exec>>

NextRefine == \E chunk_id \in 0..MaxChunks, new_text \in NewTexts :
                  UpdateChunkText(chunk_id, new_text)

SpecRefine == InitRefine /\ [][NextRefine]_vars

UpdateReturned == pure.fn = "update_chunk_text" /\ pure.called

\* the call found a chunk with the id in a readable file
IdPresent ==
    /\ pure.before.kind = "json"
    /\ \E k \in 1..Len(pure.before.chunks) : pure.before.chunks[k].id = pure.chunk_id

\* C27: update_chunk_text changes only the text of the chunk whose id is
\* given: the number and order of the chunks, every id, voice, speed and
\* emotion and every other text stay; for an id that is not present it
\* returns an error and leaves the file unchanged.
C27_OnlyTextOfThatChunk ==
    UpdateReturned =>
        /\ IdPresent =>
             /\ pure.status = "success"
             /\ chunksFile.kind = "json"
             /\ Len(chunksFile.chunks) = Len(pure.before.chunks)
             /\ \A k \in 1..Len(chunksFile.chunks) :
                  LET old == pure.before.chunks[k]
                      new == chunksFile.chunks[k]
                  IN  /\ new.id = old.id
                      /\ new.voice = old.voice
                      /\ new.speed = old.speed
                      /\ new.emotion = old.emotion
                      /\ new.text = IF old.id = pure.chunk_id THEN pure.new_text
                                    ELSE old.text
        /\ ~IdPresent => pure.status = "error" /\ chunksFile = pure.before

\* a file of two chunks, the second of which has just been given a text
\* that differs from its old one and from the first chunk's
C27_Witness ==
    /\ UpdateReturned
    /\ pure.status = "success"
    /\ pure.chunk_id = 1
    /\ Len(chunksFile.chunks) = 2
    /\ pure.before.chunks[2].text # pure.new_text
    /\ chunksFile.chunks[2].text = pure.new_text
    /\ chunksFile.chunks[1].text # pure.new_text

\* C28: after any sequence of update_chunk_text calls on a registry written
\* by the Segmenter, every chunk's text is non-empty and no longer than the
\* limit the synthesis engine accepts.
C28_TextInvariantKept ==
    chunksFile.kind = "json"
        => \A k \in 1..Len(chunksFile.chunks) :
              /\ chunksFile.chunks[k].text # <<>>
              /\ strlen(chunksFile.chunks[k].text) <= MAX_SEGMENT_LENGTH


(***************************************************************************)
(* merge_audio_chunks (saa/tools/audio_tools.py 15-167).  The chunk files  *)
(* on disk are the ids in audio; pure.output tells whether the output path *)
(* holds a file.  env is what the machine does in this call: ffmpeg is on  *)
(* the PATH, the ffmpeg run succeeds, the pydub load and export succeed.   *)
(***************************************************************************)
MergeError(chunks, output) ==
    [status |-> "error", method |-> "failed", chunks_deleted |-> 0,
     wrote |-> FALSE, chunks |-> chunks, output |-> output]

merge_audio_chunks(audio_files, crossfade_ms, use_ffmpeg, cleanup_chunks, chunks, output, env) ==
    LET try_ffmpeg  == use_ffmpeg /\ crossfade_ms = 0 /\ env.ffmpeg_path
        by_ffmpeg   == try_ffmpeg /\ env.ffmpeg_ok
        \* line 104: a failed ffmpeg run clears use_ffmpeg
        use_ffmpeg2 == use_ffmpeg /\ ~(try_ffmpeg /\ ~env.ffmpeg_ok)
        try_pydub   == ~use_ffmpeg2 \/ crossfade_ms > 0
        wrote       == by_ffmpeg \/ (try_pydub /\ env.pydub_ok)
        method      == IF try_pydub
                       THEN (IF crossfade_ms > 0 THEN "pydub_crossfade" ELSE "pydub")
                       ELSE IF by_ffmpeg THEN "ffmpeg_concat" ELSE "unknown"
        output2     == IF wrote THEN "present" ELSE output
        deleted     == IF cleanup_chunks THEN Range(audio_files) \cap chunks ELSE {}
    IN  IF audio_files = <<>> THEN MergeError(chunks, output)
        ELSE IF \E k \in 1..Len(audio_files) : audio_files[k] \notin chunks
        THEN MergeError(chunks, output)
        ELSE IF try_pydub /\ ~env.pydub_ok THEN MergeError(chunks, output)
        \* line 122: output_path_obj.stat() raises when there is no file
        ELSE IF output2 = "absent" THEN MergeError(chunks, output)
        ELSE [status |-> "success", method |-> method,
              chunks_deleted |-> Cardinality(deleted), wrote |-> wrote,
              chunks |-> chunks \ deleted, output |-> output2]

MergeEnvs == [ffmpeg_path : BOOLEAN, ffmpeg_ok : BOOLEAN, pydub_ok : BOOLEAN]

\* the lists handed over: chunk ids in ascending order
AudioFileLists == { Sorted(S) : S \in SUBSET ChunkIds }

NoMerge == [fn |-> "merge_audio_chunks", called |-> FALSE, output |-> "absent"]

InitMerge ==
    /\ job = NewJobState(0)
    /\ lastCall = NoCall
    /\ stateFile = [kind |-> "absent"]
    /\ chunksFile = [kind |-> "absent"]
    /\ settings = [tts_provider |-> "auto", has_replicate_token |-> FALSE]
    /\ engine = [c \in ChunkIds |-> "success"]
    /\ audio \in SUBSET ChunkIds
    /\ providers = {}
    /\ exec = IdleExec
    /\ pure \in {NoMerge, [NoMerge EXCEPT !.output = "present"]}

MergeAudioChunks(audio_files, crossfade_ms, use_ffmpeg, cleanup_chunks) ==
    /\ pure.fn = "merge_audio_chunks"
    /\ \E env \in MergeEnvs :
         LET res == merge_audio_chunks(audio_files, crossfade_ms, use_ffmpeg,
                                       cleanup_chunks, audio, pure.output, env)
         IN  /\ audio' = res.chunks
             /\ pure' = [fn |-> "merge_audio_chunks", called |-> TRUE,
                         output |-> res.output, before |-> audio,
                         audio_files |-> audio_files, crossfade_ms |-> crossfade_ms,
                         use_ffmpeg |-> use_ffmpeg, cleanup_chunks |-> cleanup_chunks,
                         status |-> res.status,
                         method |-> res.method, wrote |-> res.wrote,
                         chunks_deleted |-> res.chunks_deleted]
    /\ UNCHANGED <<job, lastCall, stateFile, chunksFile, settings, engine,
                   providers, exec>>

NextMerge ==
    \E audio_files \in AudioFileLists, crossfade_ms \in {0, 100},
       use_ffmpeg \in BOOLEAN, cleanup_chunks \in BOOLEAN :
        MergeAudioChunks(audio_files, crossfade_ms, use_ffmpeg, cleanup_chunks)

SpecMerge == InitMerge /\ [][NextMerge]_vars

\* C30: chunk files are deleted only after the merged output was written from
\* them in the same call; a call that merged nothing returns status error
\* and leaves every chunk file in place.
C30_DeleteOnlyAfterMerge ==
    (pure.fn = "merge_audio_chunks" /\ pure.called)
        => /\ audio # pure.before => pure.wrote
           /\ ~pure.wrote => pure.status = "error" /\ audio = pure.before

====
